---- MODULE Spec2Model ----
(***************************************************************************)
(* Model of RoomSections.pushbutton/script.py: derivation of the two      *)
(* section boxes of a room (create_section_for_room, PHASE 4) and the     *)
(* row-based packing of the section viewports on sheets                   *)
(* (pack_viewports_on_sheet, PHASE 7, PHASE 8).                           *)
(*                                                                         *)
(* Lengths on a sheet are integers in units of 0.001 ft, so that the      *)
(* source's gap 0.033 is 33 and its margin 0.164 is 164.  The source      *)
(* divides floats (x + w / 2); the viewport sizes of the model are even,  *)
(* so that \div 2 is that division exactly.  Lengths of a room are        *)
(* integers in units of 0.0001 ft, with even extents for the same reason.  *)
(* A string is the sequence of its characters.                             *)
(***************************************************************************)
EXTENDS Integers, Sequences, FiniteSets, TLC

VARIABLES
    rooms,              \* list of [Name, Number, bbox]                  (PHASE 2)
    display_units,      \* length units of the project
    counter,            \* "for counter, room in enumerate(rooms, start=1)"
    created_sections,   \* list of [Name, Scale, bbox_section, room, orientation]
    section_errors,     \* list of [room, orientation]
    viewport_data,      \* list of [view, width, height, placed]          (PHASE 6)
    available_width,    \* tb_width - 2 * margin
    available_height,   \* tb_height - 2 * margin - title_block_height
    pc,                 \* position of the script in PHASE 7 / PHASE 8
    placements,         \* list built and returned by pack_viewports_on_sheet
    current_x, current_y, row_height,   \* locals of pack_viewports_on_sheet
    idx,                \* position of "for vp in viewport_data"
    pack_calls,         \* number of calls of pack_viewports_on_sheet so far
    created_sheets,     \* list of [SheetNumber, placements, viewports]
    sheet_counter,
    pidx,               \* position of "for placement in placements"
    viewport_errors,    \* list of views whose Viewport.Create raised
    report              \* what PHASE 8 prints

vars == <<rooms, display_units, counter, created_sections, section_errors,
          viewport_data, available_width, available_height, pc, placements,
          current_x, current_y, row_height, idx, pack_calls, created_sheets,
          sheet_counter, pidx, viewport_errors, report>>

----------------------------------------------------------------------------
(* Bounds and inputs *)

MaxViewports == 3
MaxRooms == 2

\* <<width, height>> of a viewport in 0.001 ft: small, medium, flat, high,
\* wider than every sheet, taller than every sheet.
ViewportSizes ==
    { <<1000, 1000>>, <<2000, 2000>>, <<2000, 1000>>, <<1000, 3000>>,
      <<10000, 2000>>, <<2000, 10000>> }

AvailableWidths  == {2100, 3100, 5000}
AvailableHeights == {2100, 4100, 5000}

----------------------------------------------------------------------------
(* Program constants *)

margin == 164
gap    == 33

----------------------------------------------------------------------------
(* pack_viewports_on_sheet, one viewport at a time *)

\* Mutant of NextRow: the new row starts at the same y as the old one.
NextRow_SameY(x, y, rh, vp_w, avail_w, m) ==
    IF x + vp_w > avail_w + m
    THEN [x |-> m, y |-> y, rh |-> 0]
    ELSE [x |-> x, y |-> y, rh |-> rh]

\* "Check if fits in current row": the cursor after the row test.
NextRow(x, y, rh, vp_w, avail_w, m) ==
    IF x + vp_w > avail_w + m
    THEN [x |-> m, y |-> y + rh + gap, rh |-> 0]
    ELSE [x |-> x, y |-> y, rh |-> rh]

\* Mutant of SheetFull: the comparison is turned around.
SheetFull_Flipped(y, vp_h, avail_h, m) == y + vp_h < avail_h + m

\* "Check if fits vertically": TRUE when the sheet is full (break).
SheetFull(y, vp_h, avail_h, m) == y + vp_h > avail_h + m

\* Mutant of Placement: the corner of the viewport instead of its center.
Placement_Corner(i, x, y, vp_w, vp_h) == [viewport |-> i, x |-> x, y |-> y]

\* The placement dict appended for viewport i put at cursor (x, y).
Placement(i, x, y, vp_w, vp_h) ==
    [viewport |-> i, x |-> x + vp_w \div 2, y |-> y + vp_h \div 2]

Max(a, b) == IF a >= b THEN a ELSE b

\* Mutant of MarkPlaced: the flag is not set.
MarkPlaced_Forgets(data, i) == data

\* vp['placed'] = True
MarkPlaced(data, i) == [data EXCEPT ![i].placed = TRUE]

\* Mutant of PackOne: a viewport that does not fit vertically is skipped
\* (continue) and the call goes on with the next one.
PackOne_Continue(s, avail_w, avail_h, m) ==
    LET vp == s.data[s.i] IN
    IF vp.placed
    THEN [s EXCEPT !.i = s.i + 1]
    ELSE LET c == NextRow(s.x, s.y, s.rh, vp.width, avail_w, m) IN
         IF SheetFull(c.y, vp.height, avail_h, m)
         THEN [s EXCEPT !.x = c.x, !.y = c.y, !.rh = c.rh, !.i = s.i + 1]
         ELSE [data       |-> MarkPlaced(s.data, s.i),
               placements |-> Append(s.placements,
                                     Placement(s.i, c.x, c.y, vp.width, vp.height)),
               x          |-> c.x + vp.width + gap,
               y          |-> c.y,
               rh         |-> Max(c.rh, vp.height),
               i          |-> s.i + 1,
               brk        |-> FALSE]

\* One iteration of "for vp in viewport_data" on the state
\* s = [data, placements, x, y, rh, i, brk].
PackOne(s, avail_w, avail_h, m) ==
    LET vp == s.data[s.i] IN
    IF vp.placed
    THEN [s EXCEPT !.i = s.i + 1]
    ELSE LET c == NextRow(s.x, s.y, s.rh, vp.width, avail_w, m) IN
         IF SheetFull(c.y, vp.height, avail_h, m)
         THEN [s EXCEPT !.x = c.x, !.y = c.y, !.rh = c.rh, !.brk = TRUE]
         ELSE [data       |-> MarkPlaced(s.data, s.i),
               placements |-> Append(s.placements,
                                     Placement(s.i, c.x, c.y, vp.width, vp.height)),
               x          |-> c.x + vp.width + gap,
               y          |-> c.y,
               rh         |-> Max(c.rh, vp.height),
               i          |-> s.i + 1,
               brk        |-> FALSE]

\* The state of a call when it starts.
PackStart(data, m) ==
    [data |-> data, placements |-> <<>>, x |-> m, y |-> m, rh |-> 0,
     i |-> 1, brk |-> FALSE]

RECURSIVE PackLoop(_, _, _, _)
PackLoop(s, avail_w, avail_h, m) ==
    IF s.brk \/ s.i > Len(s.data)
    THEN s
    ELSE PackLoop(PackOne(s, avail_w, avail_h, m), avail_w, avail_h, m)

\* The whole function: the final data (placed flags) and the returned list.
pack_viewports_on_sheet(data, avail_w, avail_h, m) ==
    LET s == PackLoop(PackStart(data, m), avail_w, avail_h, m)
    IN  [data |-> s.data, placements |-> s.placements]

\* all(vp['placed'] for vp in viewport_data)
AllPlaced(data) == \A i \in 1..Len(data) : data[i].placed

\* Mutant of NoMorePlacements: the loop never breaks on an empty result.
NoMorePlacements_Never(pl) == FALSE

\* "if len(placements) == 0: break"
NoMorePlacements(pl) == Len(pl) = 0

\* The number of sheets the PHASE 7 loop creates when no API call raises.
RECURSIVE SheetCount(_, _, _, _)
SheetCount(data, avail_w, avail_h, m) ==
    IF AllPlaced(data)
    THEN 0
    ELSE LET r == pack_viewports_on_sheet(data, avail_w, avail_h, m) IN
         IF NoMorePlacements(r.placements)
         THEN 0
         ELSE 1 + SheetCount(r.data, avail_w, avail_h, m)

----------------------------------------------------------------------------
(* PHASE 6 result: the state in which PHASE 7 starts *)

ViewportLists ==
    UNION { [1..n -> ViewportSizes] : n \in 0..MaxViewports }

ViewportData(sizes) ==
    [i \in 1..Len(sizes) |->
        [view |-> i, width |-> sizes[i][1], height |-> sizes[i][2],
         placed |-> FALSE]]

\* PHASE 7 reads none of the PHASE 4 variables: they stay as PHASE 4
\* initialises them.
Init ==
    /\ rooms = <<>>
    /\ display_units = "other"
    /\ counter = 0
    /\ created_sections = <<>>
    /\ section_errors = <<>>
    /\ \E sizes \in ViewportLists : viewport_data = ViewportData(sizes)
    /\ available_width \in AvailableWidths
    /\ available_height \in AvailableHeights
    /\ pc = "while"
    /\ placements = <<>>
    /\ current_x = 0 /\ current_y = 0 /\ row_height = 0
    /\ idx = 0
    /\ pack_calls = 0
    /\ created_sheets = <<>>
    /\ sheet_counter = 1
    /\ pidx = 0
    /\ viewport_errors = <<>>
    /\ report = <<>>

----------------------------------------------------------------------------
(* PHASE 7: create sheets and place viewports *)

\* "while not all(...)": the loop ends (t2.Commit) ...
WhileDone ==
    /\ pc = "while"
    /\ AllPlaced(viewport_data)
    /\ pc' = "report"
    /\ UNCHANGED <<rooms, display_units, counter, created_sections,
                   section_errors>>
    /\ UNCHANGED <<viewport_data, available_width, available_height,
                   placements, current_x, current_y, row_height, idx,
                   pack_calls, created_sheets, sheet_counter, pidx,
                   viewport_errors, report>>

\* ... or pack_viewports_on_sheet is called.
PackCall ==
    /\ pc = "while"
    /\ ~AllPlaced(viewport_data)
    /\ LET s == PackStart(viewport_data, margin) IN
         /\ placements' = s.placements
         /\ current_x' = s.x
         /\ current_y' = s.y
         /\ row_height' = s.rh
         /\ idx' = s.i
    /\ pack_calls' = pack_calls + 1
    /\ pc' = "pack"
    /\ UNCHANGED <<rooms, display_units, counter, created_sections,
                   section_errors>>
    /\ UNCHANGED <<viewport_data, available_width, available_height,
                   created_sheets, sheet_counter, pidx, viewport_errors,
                   report>>

\* One iteration of "for vp in viewport_data"; a break returns at once.
PackViewport ==
    /\ pc = "pack"
    /\ idx <= Len(viewport_data)
    /\ LET s == PackOne([data |-> viewport_data, placements |-> placements,
                         x |-> current_x, y |-> current_y, rh |-> row_height,
                         i |-> idx, brk |-> FALSE],
                        available_width, available_height, margin) IN
         /\ viewport_data' = s.data
         /\ placements' = s.placements
         /\ current_x' = s.x
         /\ current_y' = s.y
         /\ row_height' = s.rh
         /\ idx' = s.i
         /\ pc' = IF s.brk THEN "packed" ELSE "pack"
    /\ UNCHANGED <<rooms, display_units, counter, created_sections,
                   section_errors>>
    /\ UNCHANGED <<available_width, available_height, pack_calls,
                   created_sheets, sheet_counter, pidx, viewport_errors,
                   report>>

\* The for loop is exhausted: return placements.
PackReturn ==
    /\ pc = "pack"
    /\ idx > Len(viewport_data)
    /\ pc' = "packed"
    /\ UNCHANGED <<rooms, display_units, counter, created_sections,
                   section_errors>>
    /\ UNCHANGED <<viewport_data, available_width, available_height,
                   placements, current_x, current_y, row_height, idx,
                   pack_calls, created_sheets, sheet_counter, pidx,
                   viewport_errors, report>>

\* "if len(placements) == 0: break", then the else branch t2.Commit().
NoPlacementsBreak ==
    /\ pc = "packed"
    /\ NoMorePlacements(placements)
    /\ pc' = "report"
    /\ UNCHANGED <<rooms, display_units, counter, created_sections,
                   section_errors>>
    /\ UNCHANGED <<viewport_data, available_width, available_height,
                   placements, current_x, current_y, row_height, idx,
                   pack_calls, created_sheets, sheet_counter, pidx,
                   viewport_errors, report>>

\* ViewSheet.Create succeeds; the sheet gets its number and is appended.
CreateSheet ==
    /\ pc = "packed"
    /\ ~NoMorePlacements(placements)
    /\ created_sheets' = Append(created_sheets,
                                [SheetNumber |-> sheet_counter,
                                 placements  |-> placements,
                                 viewports   |-> <<>>])
    /\ pidx' = 1
    /\ pc' = "place"
    /\ UNCHANGED <<rooms, display_units, counter, created_sections,
                   section_errors>>
    /\ UNCHANGED <<viewport_data, available_width, available_height,
                   placements, current_x, current_y, row_height, idx,
                   pack_calls, sheet_counter, viewport_errors, report>>

\* ViewSheet.Create (or setting the sheet's number or name) raises:
\* t2.RollBack(), alert, exit of the script.
CreateSheetRaises ==
    /\ pc = "packed"
    /\ ~NoMorePlacements(placements)
    /\ pc' = "aborted"
    /\ UNCHANGED <<rooms, display_units, counter, created_sections,
                   section_errors>>
    /\ UNCHANGED <<viewport_data, available_width, available_height,
                   placements, current_x, current_y, row_height, idx,
                   pack_calls, created_sheets, sheet_counter, pidx,
                   viewport_errors, report>>

\* Viewport.Create succeeds for the placement at pidx.
PlaceViewport ==
    /\ pc = "place"
    /\ pidx <= Len(placements)
    /\ LET p == placements[pidx]
           n == Len(created_sheets) IN
         created_sheets' =
            [created_sheets EXCEPT ![n].viewports =
                Append(@, [view |-> viewport_data[p.viewport].view,
                           x |-> p.x, y |-> p.y])]
    /\ pidx' = pidx + 1
    /\ UNCHANGED <<rooms, display_units, counter, created_sections,
                   section_errors>>
    /\ UNCHANGED <<viewport_data, available_width, available_height, pc,
                   placements, current_x, current_y, row_height, idx,
                   pack_calls, sheet_counter, viewport_errors, report>>

\* Viewport.Create raises: the error is recorded and the loop goes on.
PlaceViewportRaises ==
    /\ pc = "place"
    /\ pidx <= Len(placements)
    /\ viewport_errors' =
          Append(viewport_errors, viewport_data[placements[pidx].viewport].view)
    /\ pidx' = pidx + 1
    /\ UNCHANGED <<rooms, display_units, counter, created_sections,
                   section_errors>>
    /\ UNCHANGED <<viewport_data, available_width, available_height, pc,
                   placements, current_x, current_y, row_height, idx,
                   pack_calls, created_sheets, sheet_counter, report>>

\* End of the placement loop: sheet_counter += 1, back to the while test.
NextSheet ==
    /\ pc = "place"
    /\ pidx > Len(placements)
    /\ sheet_counter' = sheet_counter + 1
    /\ pc' = "while"
    /\ UNCHANGED <<rooms, display_units, counter, created_sections,
                   section_errors>>
    /\ UNCHANGED <<viewport_data, available_width, available_height,
                   placements, current_x, current_y, row_height, idx,
                   pack_calls, created_sheets, pidx, viewport_errors, report>>

----------------------------------------------------------------------------
(* PHASE 8: the report *)

Report ==
    /\ pc = "report"
    /\ report' = [sheets |-> Len(created_sheets),
                  errors |-> [section |-> section_errors,
                              viewport |-> viewport_errors],
                  completed |-> TRUE]
    /\ pc' = "done"
    /\ UNCHANGED <<rooms, display_units, counter, created_sections,
                   section_errors>>
    /\ UNCHANGED <<viewport_data, available_width, available_height,
                   placements, current_x, current_y, row_height, idx,
                   pack_calls, created_sheets, sheet_counter, pidx,
                   viewport_errors>>

Next ==
    \/ WhileDone
    \/ PackCall
    \/ PackViewport
    \/ PackReturn
    \/ NoPlacementsBreak
    \/ CreateSheet
    \/ CreateSheetRaises
    \/ PlaceViewport
    \/ PlaceViewportRaises
    \/ NextSheet
    \/ Report

Spec == Init /\ [][Next]_vars

----------------------------------------------------------------------------
(* create_section_for_room *)

NA == <<"N", "/", "A">>
\* A room without the parameter has this in its place.
NoParam == <<"<no parameter>">>

\* None is the empty sequence; a bounding box or a section that is not
\* None is the sequence of that one value.
None == <<>>
Some(v) == <<v>>

\* ParaInst: the value of the parameter, "N/A" when the element has none.
ParaInst(element, paraname) ==
    IF element[paraname] = NoParam THEN NA ELSE element[paraname]

\* str.replace(" ", "_")
Replace(str) == [k \in 1..Len(str) |-> IF str[k] = " " THEN "_" ELSE str[k]]

\* str(counter), for the counters of the model (below 10)
Digits == <<"0", "1", "2", "3", "4", "5", "6", "7", "8", "9">>
Str(n) == <<Digits[n + 1]>>

XYZBasisX == <<1, 0, 0>>
XYZBasisY == <<0, 1, 0>>
XYZBasisZ == <<0, 0, 1>>

CrossProduct(a, b) ==
    << a[2] * b[3] - a[3] * b[2],
       a[3] * b[1] - a[1] * b[3],
       a[1] * b[2] - a[2] * b[1] >>

\* 500 mm in feet: 500.0 / 304.8 and 0.5 / 0.3048 are 1.6404 ft to the
\* precision of the model, the default is 1.64 ft.
Offset(units) ==
    CASE units = "millimeters" -> 16404
      [] units = "meters"      -> 16404
      [] OTHER                 -> 16400

\* Mutant of MajorIsX: a tie picks Y.
MajorIsX_Strict(width_x, width_y) == width_x > width_y

\* "if width_x >= width_y": the major axis is X.
MajorIsX(width_x, width_y) == width_x >= width_y

\* The locals the orientation decides: right, section_width,
\* section_depth and suffix.
Orient(width_x, width_y, orientation) ==
    LET major_is_x  == MajorIsX(width_x, width_y)
        major_width == IF major_is_x THEN width_x ELSE width_y
        minor_width == IF major_is_x THEN width_y ELSE width_x
    IN  IF orientation = "vertical"
        THEN [right         |-> IF major_is_x THEN XYZBasisX ELSE XYZBasisY,
              section_width |-> major_width,
              section_depth |-> minor_width,
              suffix        |-> "V"]
        ELSE [right         |-> IF major_is_x THEN XYZBasisY ELSE XYZBasisX,
              section_width |-> minor_width,
              section_depth |-> major_width,
              suffix        |-> "H"]

\* The BoundingBoxXYZ handed to ViewSection.CreateSection.
SectionBox(bbox, orientation, offset) ==
    LET center   == [k \in 1..3 |-> (bbox.Max[k] + bbox.Min[k]) \div 2]
        width_x  == bbox.Max[1] - bbox.Min[1]
        width_y  == bbox.Max[2] - bbox.Min[2]
        height_z == bbox.Max[3] - bbox.Min[3]
        o        == Orient(width_x, width_y, orientation)
        up       == XYZBasisZ
    IN  [Transform |-> [Origin |-> center,
                        BasisX |-> o.right,
                        BasisY |-> up,
                        BasisZ |-> CrossProduct(o.right, up)],
         Min |-> << (-o.section_width) \div 2 - offset,
                    (-height_z) \div 2 - offset,
                    0 >>,
         Max |-> << o.section_width \div 2 + offset,
                    height_z \div 2 + offset,
                    o.section_depth + offset >>]

\* clean_name
CleanName(room, cnt, suffix) ==
    LET name      == ParaInst(room, "Name")
        number    == ParaInst(room, "Number")
        room_name == IF name = <<>> \/ name = NA
                     THEN <<"R", "o", "o", "m">> ELSE name
        room_number == IF number = <<>> \/ number = NA
                       THEN Str(cnt) ELSE number
    IN  Replace(room_name) \o <<"_">> \o Replace(room_number) \o <<"_">>
        \o Str(cnt) \o <<"_">> \o <<suffix>>

\* The function: None without a bounding box or when the try block around
\* ViewSection.CreateSection raises (created = FALSE), else the section.
\* The fields room and orientation record the call that made the section.
create_section_for_room(room, cnt, units, orientation, created) ==
    IF room.bbox = None
    THEN None
    ELSE LET bbox    == room.bbox[1]
             width_x == bbox.Max[1] - bbox.Min[1]
             width_y == bbox.Max[2] - bbox.Min[2]
             o       == Orient(width_x, width_y, orientation)
         IN  IF created
             THEN Some([Name         |-> CleanName(room, cnt, o.suffix),
                        Scale        |-> 50,
                        bbox_section |-> SectionBox(bbox, orientation,
                                                    Offset(units)),
                        room         |-> cnt,
                        orientation  |-> orientation])
             ELSE None

----------------------------------------------------------------------------
(* PHASE 4: create sections *)

\* Rooms: without parameters or named "Hall 1" / "10 1"; without a
\* bounding box, or with a footprint that is a point, wider in X, wider
\* in Y, or square (0.0001 ft; 4 ft = 40000).
RoomLabels ==
    { [Name |-> NoParam, Number |-> <<>>],
      [Name |-> <<"H", "a", "l", "l", " ", "1">>,
       Number |-> <<"1", "0", " ", "1">>] }

RoomBoxes ==
    { None }
    \cup { Some([Min |-> <<0, 0, 0>>, Max |-> <<e[1], e[2], 30000>>]) :
             e \in { <<0, 0>>, <<40000, 20000>>, <<20000, 40000>>,
                     <<20000, 20000>> } }

Rooms ==
    { [Name |-> l.Name, Number |-> l.Number, bbox |-> b] :
        l \in RoomLabels, b \in RoomBoxes }

DisplayUnits == {"millimeters", "meters", "other"}

InitSection ==
    /\ \E n \in 1..MaxRooms : rooms \in [1..n -> Rooms]
    /\ display_units \in DisplayUnits
    /\ counter = 1
    /\ created_sections = <<>>
    /\ section_errors = <<>>
    /\ pc = "vertical"
    /\ viewport_data = <<>>
    /\ available_width = 0
    /\ available_height = 0
    /\ placements = <<>>
    /\ current_x = 0 /\ current_y = 0 /\ row_height = 0
    /\ idx = 0
    /\ pack_calls = 0
    /\ created_sheets = <<>>
    /\ sheet_counter = 1
    /\ pidx = 0
    /\ viewport_errors = <<>>
    /\ report = <<>>

PackingVars ==
    <<viewport_data, available_width, available_height, placements,
      current_x, current_y, row_height, idx, pack_calls, created_sheets,
      sheet_counter, pidx, viewport_errors, report>>

\* Mutant of Collect: a failed call leaves no diagnostic.
Collect_Silent(section, room, orientation) ==
    IF section # None
    THEN /\ created_sections' = Append(created_sections, section[1])
         /\ UNCHANGED section_errors
    ELSE UNCHANGED <<created_sections, section_errors>>

\* The result of one call lands in created_sections or in section_errors.
Collect(section, room, orientation) ==
    IF section # None
    THEN /\ created_sections' = Append(created_sections, section[1])
         /\ UNCHANGED section_errors
    ELSE /\ section_errors' =
               Append(section_errors,
                      [room |-> ParaInst(room, "Name"),
                       orientation |-> orientation])
         /\ UNCHANGED created_sections

\* Create vertical section (along major axis)
CreateVertical ==
    /\ pc = "vertical"
    /\ counter <= Len(rooms)
    /\ \E created \in BOOLEAN :
          Collect(create_section_for_room(rooms[counter], counter,
                      display_units, "vertical", created),
                  rooms[counter], "vertical")
    /\ pc' = "horizontal"
    /\ UNCHANGED <<rooms, display_units, counter>>
    /\ UNCHANGED PackingVars

\* Create horizontal section (along minor axis), then the next room
CreateHorizontal ==
    /\ pc = "horizontal"
    /\ \E created \in BOOLEAN :
          Collect(create_section_for_room(rooms[counter], counter,
                      display_units, "horizontal", created),
                  rooms[counter], "horizontal")
    /\ counter' = counter + 1
    /\ pc' = "vertical"
    /\ UNCHANGED <<rooms, display_units>>
    /\ UNCHANGED PackingVars

\* An exception escapes a call (a Revit API call outside the function's
\* try block raises): t.RollBack(), alert, exit of the script.
SectionsRaise ==
    /\ pc \in {"vertical", "horizontal"}
    /\ counter <= Len(rooms)
    /\ pc' = "rolled_back"
    /\ UNCHANGED <<rooms, display_units, counter, created_sections,
                   section_errors>>
    /\ UNCHANGED PackingVars

\* The loop is over: t.Commit(); the script exits when nothing was created.
CommitSections ==
    /\ pc = "vertical"
    /\ counter > Len(rooms)
    /\ pc' = IF Len(created_sections) = 0 THEN "exit" ELSE "sections_created"
    /\ UNCHANGED <<rooms, display_units, counter, created_sections,
                   section_errors>>
    /\ UNCHANGED PackingVars

NextSection ==
    \/ CreateVertical
    \/ CreateHorizontal
    \/ SectionsRaise
    \/ CommitSections

SpecSection == InitSection /\ [][NextSection]_vars

FairSpec == Spec /\ WF_vars(Next)

----------------------------------------------------------------------------
(* Properties of the packing *)

\* The pages so far: the placements of every created sheet, and the list
\* of the call in progress or returned but not yet put on a sheet.
Pages ==
    [k \in 1..Len(created_sheets) |-> created_sheets[k].placements]
    \o (IF pc \in {"pack", "packed", "aborted"} THEN <<placements>> ELSE <<>>)

\* The number of placements, on all pages, that refer to viewport i.
RECURSIVE CountIn(_, _)
CountIn(pl, i) ==
    IF pl = <<>> THEN 0
    ELSE (IF pl[1].viewport = i THEN 1 ELSE 0) + CountIn(Tail(pl), i)

RECURSIVE PlacementCount(_, _)
PlacementCount(pgs, i) ==
    IF pgs = <<>> THEN 0
    ELSE CountIn(pgs[1], i) + PlacementCount(Tail(pgs), i)

Abs(a) == IF a >= 0 THEN a ELSE -a

\* The interiors of the rectangles of placements p and q are disjoint.
InteriorsDisjoint(p, q) ==
    LET vp == viewport_data[p.viewport]
        vq == viewport_data[q.viewport] IN
    \/ 2 * Abs(p.x - q.x) >= vp.width + vq.width
    \/ 2 * Abs(p.y - q.y) >= vp.height + vq.height

Fits(vp) == vp.width <= available_width /\ vp.height <= available_height

\* viewport_data as PHASE 6 built it (nothing placed).
Unplaced(data) == [i \in 1..Len(data) |-> [data[i] EXCEPT !.placed = FALSE]]

IsPrefix(s, t) == Len(s) <= Len(t) /\ \A k \in 1..Len(s) : s[k] = t[k]

\* C1: any two placements of the same page (one call of
\* pack_viewports_on_sheet) are rectangles whose interiors do not intersect.
C1_NoOverlap ==
    \A k \in 1..Len(Pages) :
        \A a, b \in 1..Len(Pages[k]) :
            a < b => InteriorsDisjoint(Pages[k][a], Pages[k][b])

\* A page with a full row of two, and a third viewport in the next row.
C1_Witness ==
    \E k \in 1..Len(Pages) :
        /\ Len(Pages[k]) >= 3
        /\ Pages[k][1].y = Pages[k][2].y
        /\ Pages[k][3].y > Pages[k][1].y
        /\ Pages[k][3].x <= Pages[k][1].x

\* C2: a viewport wider than available_width or taller than
\* available_height is never placed: it has no placement and its flag
\* stays false.
C2_OversizedNeverPlaced ==
    \A i \in 1..Len(viewport_data) :
        ~Fits(viewport_data[i]) =>
            /\ ~viewport_data[i].placed
            /\ PlacementCount(Pages, i) = 0

\* C3: when the PHASE 7 loop has finished, every viewport that fits an
\* empty sheet is placed and has a placement.
C3_PlaceableAllPlaced ==
    pc \in {"report", "done"} =>
        \A i \in 1..Len(viewport_data) :
            Fits(viewport_data[i]) =>
                /\ viewport_data[i].placed
                /\ PlacementCount(Pages, i) = 1

\* C4: every call either places a viewport (and one sheet is created for
\* it) or returns nothing and ends the loop, so that the calls are at most
\* the number of viewports plus one, and the script always ends.
C4_CallsBounded ==
    /\ pack_calls <= Len(viewport_data) + 1
    /\ Len(created_sheets) <= pack_calls
    /\ pc \in {"while", "place"} => Len(created_sheets) = pack_calls
    /\ pc \in {"while", "place"} =>
          \A k \in 1..Len(created_sheets) :
              Len(created_sheets[k].placements) >= 1
    /\ pc \in {"report", "done"} =>
          Len(created_sheets) \in {pack_calls, pack_calls - 1}

C4_Terminates == []C4_CallsBounded /\ <>(pc \in {"done", "aborted"})

\* The loop stopped on an empty result after some sheets were created.
C4_Witness ==
    /\ pc = "done"
    /\ ~AllPlaced(viewport_data)
    /\ pack_calls = Len(created_sheets) + 1
    /\ Len(created_sheets) >= 2

\* C5: when the loop stopped on an empty result with viewports left
\* unplaced, the errors of the report name every unplaced viewport.
C5_UnplacedReported ==
    pc = "done" =>
        \A i \in 1..Len(viewport_data) :
            ~viewport_data[i].placed =>
                \E e \in 1..Len(report.errors.viewport) :
                    report.errors.viewport[e] = viewport_data[i].view

\* C6 as claimed: a sheet at least as wide and as high never needs more
\* sheets for the same list.
C6_PageCountMonotone ==
    pc \in {"report", "done"} =>
        \A w2 \in AvailableWidths, h2 \in AvailableHeights :
            (w2 >= available_width /\ h2 >= available_height) =>
                SheetCount(Unplaced(viewport_data), w2, h2, margin)
                    <= Len(created_sheets)

\* C6 as amended: with the same width, a higher sheet never takes fewer
\* viewports in the first call: what the first call returns is a prefix of
\* what it returns for the higher sheet.
C6_FirstPageMonotoneInHeight ==
    (pc = "packed" /\ pack_calls = 1) =>
        \A h2 \in AvailableHeights :
            h2 >= available_height =>
                IsPrefix(placements,
                         pack_viewports_on_sheet(Unplaced(viewport_data),
                             available_width, h2, margin).placements)

\* The first call was stopped by the height, and a higher sheet takes more.
C6_Witness ==
    /\ pc = "packed" /\ pack_calls = 1
    /\ Len(placements) >= 1
    /\ \E h2 \in AvailableHeights :
          /\ h2 > available_height
          /\ Len(pack_viewports_on_sheet(Unplaced(viewport_data),
                    available_width, h2, margin).placements) > Len(placements)

\* C7: a placed flag goes from false to true only, and a viewport is placed
\* if and only if exactly one placement refers to it; no viewport has two.
C7_PlacedOnce ==
    \A i \in 1..Len(viewport_data) :
        /\ PlacementCount(Pages, i) <= 1
        /\ viewport_data[i].placed <=> PlacementCount(Pages, i) = 1

C7_PlacedMonotone ==
    /\ []C7_PlacedOnce
    /\ [][\A i \in 1..Len(viewport_data) :
             viewport_data[i].placed => viewport_data'[i].placed]_vars

\* Viewports placed by two calls, a third one still unplaced.
C7_Witness ==
    /\ Len(created_sheets) >= 2
    /\ \E i \in 1..Len(viewport_data) : ~viewport_data[i].placed
    /\ \E i, j \in 1..Len(viewport_data) :
          /\ CountIn(created_sheets[1].placements, i) = 1
          /\ CountIn(created_sheets[2].placements, j) = 1

\* C10: the shelf rule.  A call starts at (margin, margin) with row height
\* 0; an unplaced viewport (w, h) first wraps to a new row when
\* x + w > available_width + margin, and is then placed (if the sheet is
\* not full) with center (x + w/2, y + h/2), x += w + gap and
\* row_height = max(row_height, h).
C10_Step ==
    (pc = "pack" /\ idx <= Len(viewport_data) /\ ~viewport_data[idx].placed)
    => LET w    == viewport_data[idx].width
           h    == viewport_data[idx].height
           wrap == current_x + w > available_width + margin
           x0   == IF wrap THEN margin ELSE current_x
           y0   == IF wrap THEN current_y + row_height + gap ELSE current_y
           r0   == IF wrap THEN 0 ELSE row_height
       IN  IF y0 + h > available_height + margin
           THEN placements' = placements /\ pc' = "packed"
                /\ viewport_data' = viewport_data
           ELSE /\ placements' = Append(placements,
                       [viewport |-> idx,
                        x |-> x0 + w \div 2, y |-> y0 + h \div 2])
                /\ viewport_data'[idx].placed
                /\ current_x' = x0 + w + gap
                /\ current_y' = y0
                /\ row_height' = (IF r0 >= h THEN r0 ELSE h)
                /\ idx' = idx + 1

C10_Start ==
    (pc = "while" /\ pc' = "pack") =>
        /\ current_x' = margin /\ current_y' = margin /\ row_height' = 0
        /\ placements' = <<>> /\ idx' = 1

\* Three (2000, 2000) viewports on a (5000, 5000) sheet.
C10_Scenario ==
    /\ Len(viewport_data) = 3
    /\ \A i \in 1..3 :
          viewport_data[i].width = 2000 /\ viewport_data[i].height = 2000
    /\ available_width = 5000 /\ available_height = 5000

\* The centers of the scenario: (1, 1), (3, 1) and (1, 3) ft from the
\* margin, the second column and the second row moved by the gap.
C10_ScenarioCenters ==
    (C10_Scenario /\ pc = "done") =>
        /\ Len(created_sheets) = 1
        /\ created_sheets[1].placements =
              << [viewport |-> 1, x |-> margin + 1000, y |-> margin + 1000],
                 [viewport |-> 2, x |-> margin + gap + 3000, y |-> margin + 1000],
                 [viewport |-> 3, x |-> margin + 1000, y |-> margin + gap + 3000] >>

----------------------------------------------------------------------------
(* Properties of the section derivation *)

WidthX(bbox) == bbox.Max[1] - bbox.Min[1]
WidthY(bbox) == bbox.Max[2] - bbox.Min[2]

\* What a created section says about itself.
TagOf(section) == section.Name[Len(section.Name)]
RightOf(section) == section.bbox_section.Transform.BasisX
SectionWidthOf(section) ==
    section.bbox_section.Max[1] - section.bbox_section.Min[1]
        - 2 * Offset(display_units)
SectionDepthOf(section) ==
    section.bbox_section.Max[3] - Offset(display_units)

\* C8: no section is created for a room without a bounding box, nor for a
\* room whose major horizontal extent max(widthX, widthY) is zero.
C8_DegenerateFails ==
    \A k \in 1..Len(created_sections) :
        LET room == rooms[created_sections[k].room] IN
        /\ room.bbox # None
        /\ Max(WidthX(room.bbox[1]), WidthY(room.bbox[1])) # 0

\* C9: the major axis is X when widthX >= widthY and Y otherwise; the
\* vertical section runs along the major axis, is as wide as the major
\* extent, as deep as the minor extent and is tagged "V"; the horizontal
\* section runs along the minor axis, is as wide as the minor extent, as
\* deep as the major extent and is tagged "H"; the two sections of a room
\* have different axes and different tags.
C9_MajorMinor ==
    /\ \A k \in 1..Len(created_sections) :
          LET sec   == created_sections[k]
              bbox  == rooms[sec.room].bbox[1]
              wx    == WidthX(bbox)
              wy    == WidthY(bbox)
              major == IF wx >= wy THEN wx ELSE wy
              minor == IF wx >= wy THEN wy ELSE wx
              majorAxis == IF wx >= wy THEN <<1, 0, 0>> ELSE <<0, 1, 0>>
              minorAxis == IF wx >= wy THEN <<0, 1, 0>> ELSE <<1, 0, 0>>
          IN  IF sec.orientation = "vertical"
              THEN /\ RightOf(sec) = majorAxis
                   /\ SectionWidthOf(sec) = major
                   /\ SectionDepthOf(sec) = minor
                   /\ TagOf(sec) = "V"
              ELSE /\ RightOf(sec) = minorAxis
                   /\ SectionWidthOf(sec) = minor
                   /\ SectionDepthOf(sec) = major
                   /\ TagOf(sec) = "H"
    /\ \A j, k \in 1..Len(created_sections) :
          (j < k /\ created_sections[j].room = created_sections[k].room) =>
              /\ RightOf(created_sections[j]) # RightOf(created_sections[k])
              /\ TagOf(created_sections[j]) # TagOf(created_sections[k])

\* Both sections of a square room and of the room min = (0, 0, 0),
\* max = (4, 2, 3) ft exist: vertical 4 wide and 2 deep, horizontal 2 wide
\* and 4 deep.
C9_Witness ==
    /\ Len(created_sections) = 4
    /\ WidthX(rooms[1].bbox[1]) = WidthY(rooms[1].bbox[1])
    /\ RightOf(created_sections[1]) = <<1, 0, 0>>
    /\ rooms[2].bbox[1].Max = <<40000, 20000, 30000>>
    /\ SectionWidthOf(created_sections[3]) = 40000
    /\ SectionDepthOf(created_sections[3]) = 20000
    /\ SectionWidthOf(created_sections[4]) = 20000
    /\ SectionDepthOf(created_sections[4]) = 40000

\* The calls of create_section_for_room in the order of PHASE 4: call a
\* is for room (a + 1) \div 2, vertical when a is odd.
AttemptRoom(a) == (a + 1) \div 2
AttemptOrientation(a) == IF a % 2 = 1 THEN "vertical" ELSE "horizontal"

\* The number of calls made so far.
AttemptsDone ==
    2 * (counter - 1) + (IF pc = "horizontal" THEN 1 ELSE 0)

HasSection(r, o) ==
    \E k \in 1..Len(created_sections) :
        created_sections[k].room = r /\ created_sections[k].orientation = o

\* The diagnostics the calls 1..a must have left: one per call without a
\* section, in the order of the calls, with the room's name and the
\* orientation.
RECURSIVE ExpectedErrors(_)
ExpectedErrors(a) ==
    IF a = 0 THEN <<>>
    ELSE LET r == AttemptRoom(a)
             o == AttemptOrientation(a)
         IN  IF HasSection(r, o)
             THEN ExpectedErrors(a - 1)
             ELSE Append(ExpectedErrors(a - 1),
                         [room |-> ParaInst(rooms[r], "Name"),
                          orientation |-> o])

\* C11: both orientations of every room are attempted whatever the other
\* gave, every failed attempt leaves exactly one diagnostic with the room's
\* name and the orientation, and the following rooms are processed; when
\* the phase ends without an escaping exception, sections plus diagnostics
\* are twice the rooms.
C11_PerAttemptRecovery ==
    pc # "rolled_back" =>
        /\ Len(created_sections) + Len(section_errors) = AttemptsDone
        /\ section_errors = ExpectedErrors(AttemptsDone)
        /\ \A j, k \in 1..Len(created_sections) :
              (created_sections[j].room = created_sections[k].room
               /\ created_sections[j].orientation
                     = created_sections[k].orientation) => j = k
        /\ \A k \in 1..Len(created_sections) :
              \E a \in 1..AttemptsDone :
                  /\ created_sections[k].room = AttemptRoom(a)
                  /\ created_sections[k].orientation = AttemptOrientation(a)
        /\ pc \in {"exit", "sections_created"} =>
              /\ counter = Len(rooms) + 1
              /\ Len(created_sections) + Len(section_errors) = 2 * Len(rooms)

\* Two rooms: the vertical call of the first failed and its horizontal
\* call gave a section, and the second room was processed after that.
C11_Witness ==
    /\ pc = "sections_created"
    /\ Len(rooms) = 2
    /\ ~HasSection(1, "vertical")
    /\ HasSection(1, "horizontal")
    /\ HasSection(2, "vertical")
    /\ ~HasSection(2, "horizontal")
    /\ Len(section_errors) = 2

----------------------------------------------------------------------------
(* Position and order of the placements *)

\* The rectangle of placement p lies inside the usable area of the sheet.
InsideSheet(p) ==
    LET vp == viewport_data[p.viewport] IN
    /\ 2 * p.x - vp.width >= 2 * margin
    /\ 2 * p.x + vp.width <= 2 * (available_width + margin)
    /\ 2 * p.y - vp.height >= 2 * margin
    /\ 2 * p.y + vp.height <= 2 * (available_height + margin)

\* C12: every placed rectangle lies inside the usable area: left edge
\* >= margin, right edge <= available_width + margin, and
\* margin <= y - h/2, y + h/2 <= available_height + margin.
C12_InsideSheet ==
    \A k \in 1..Len(Pages) :
        \A a \in 1..Len(Pages[k]) : InsideSheet(Pages[k][a])

\* The viewports of the placements of the pages, page after page.
RECURSIVE PlacedOrder(_)
PlacedOrder(pgs) ==
    IF pgs = <<>> THEN <<>>
    ELSE [a \in 1..Len(pgs[1]) |-> pgs[1][a].viewport]
         \o PlacedOrder(Tail(pgs))

\* C13: a call stops at the first viewport that fails the vertical test,
\* so the placed viewports are a prefix of the input list, every page is a
\* run of consecutive viewports, and the pages follow the input order.
C13_Order ==
    /\ PlacedOrder(Pages) = [a \in 1..Len(PlacedOrder(Pages)) |-> a]
    /\ \A i \in 1..Len(viewport_data) :
          viewport_data[i].placed <=> i <= Len(PlacedOrder(Pages))
    /\ \A k \in 1..Len(Pages) :
          \A a \in 1..Len(Pages[k]) :
              a > 1 => Pages[k][a].viewport = Pages[k][a - 1].viewport + 1

C13_StopAtFull ==
    (/\ pc = "pack"
     /\ idx <= Len(viewport_data)
     /\ ~viewport_data[idx].placed
     /\ LET c == NextRow(current_x, current_y, row_height,
                         viewport_data[idx].width, available_width, margin)
        IN  c.y + viewport_data[idx].height > available_height + margin)
    => (pc' = "packed" /\ placements' = placements
        /\ viewport_data' = viewport_data)

C13_InputOrder == []C13_Order /\ [][C13_StopAtFull]_vars

\* A call that placed something stopped at a viewport that does not fit
\* any more, before a lower viewport that is still unplaced; and, later,
\* that viewport opens the second sheet.
C13_Witness ==
    /\ pc = "place"
    /\ Len(created_sheets) = 2
    /\ Len(created_sheets[1].placements) = 1
    /\ created_sheets[2].placements[1].viewport = 2
    /\ Len(viewport_data) = 3
    /\ viewport_data[3].height < viewport_data[2].height
    /\ viewport_data[3].width <= viewport_data[1].width
    /\ Fits(viewport_data[1]) /\ Fits(viewport_data[2]) /\ Fits(viewport_data[3])

====
